---- MODULE Spec2Model ----
(***************************************************************************)
(* State-machine model of athena_query_lambda.py: the AgentCore Gateway    *)
(* Lambda that resolves a tool name to a predefined Athena query, binds    *)
(* the parameters of the event into it, runs it (submit, poll, fetch) and  *)
(* shapes the answer.  Further parts model the tool schemas the gateway    *)
(* publishes (setup_gateway_with_identity.py), two invocations of the      *)
(* Lambda running at the same time, and the script runs of one browser     *)
(* session of streamlit_app.py.                                            *)
(*                                                                         *)
(* Text is modelled as a sequence of pieces.  A piece of a bound query is  *)
(* either a literal chunk of the template (whitespace collapsed) or one    *)
(* character of a parameter value, so that braces inside a value can be    *)
(* seen.  A Python dict that is iterated in insertion order is a sequence  *)
(* of <<key, value>> pairs.  An operation that may raise yields an         *)
(* outcome: Ret(v) or Raise(e).                                            *)
(***************************************************************************)
EXTENDS Integers, Sequences, FiniteSets, TLC

VARIABLES
    pc,                  \* position of the invocation in lambda_handler
    original_tool_name,  \* context.client_context.custom[...], segments split at "___"
    event,               \* the event: parameter name -> value
    tool_name,           \* local of lambda_handler
    query,               \* local of lambda_handler: the bound query text
    attempt,             \* local of execute_athena_query
    status,              \* local of execute_athena_query: last State polled
    reason,              \* StateChangeReason of the last poll (a set: absent or one value)
    fetched,             \* the result set get_query_results returned (a set: none or one)
    result,              \* what execute_athena_query returned
    response,            \* what lambda_handler returned
    submits,             \* start_query_execution calls of this invocation
    polls,               \* get_query_execution calls of this invocation
    fetches,             \* get_query_results calls of this invocation
    running,             \* answers of the service that reported a non-terminal state
    fault,               \* where an exception was raised in this invocation
    afterFault,          \* an earlier invocation of this process raised an exception
    stored               \* data rows of the result the query produced in the service

\* concurrent invocations of the Lambda function
VARIABLES
    inv,                 \* invocation -> its position and the locals of its call
    executions           \* the query executions of the service, by handle

\* streamlit_app.py: one browser session
VARIABLES
    session_state,       \* st.session_state: the keys that are set -> value
    run,                 \* position of the script run
    widget,              \* the interaction that triggered the script run
    now,                 \* the clock, in minutes
    shown,               \* what the last script run rendered
    cognito,             \* token sets the user pool has issued
    last                 \* what the last step of the app did to the session

vars == <<pc, original_tool_name, event, tool_name, query, attempt, status, reason,
          fetched, result, response, submits, polls, fetches, running, fault,
          afterFault, stored>>

concVars == <<inv, executions>>

uiVars == <<session_state, run, widget, now, shown, cognito, last>>

\* what a step of one invocation of lambda_handler leaves alone
others == <<concVars, uiVars>>

allVars == <<vars, concVars, uiVars>>

----------------------------------------------------------------------------
(* Bounds of the model *)

MaxEventKeys == 2    \* parameters in one event (Spec)
MaxCols == 2         \* columns of a result set (SpecMat)
MaxRows == 3         \* rows of a result set, header included (SpecMat)
MaxStoredRows == 101 \* data rows of a stored result (SpecPage)
MaxExecutions == 2   \* query executions the service starts (SpecConc)
MaxNow == 101        \* the clock, in minutes (SpecUI)
MaxMessages == 5     \* entries of the chat history (SpecUI)
MaxTokens == 2       \* token sets the user pool issues (SpecUI)

----------------------------------------------------------------------------
(* Outcomes and exceptions *)

Ret(v) == [kind |-> "return", value |-> v]

Raise(e) == [kind |-> "raise", value |-> e]

Exc(type, args) == [type |-> type, args |-> args]

\* str(e): a KeyError prints the repr of its key, the others their message
Str(e) ==
    IF e.type = "KeyError" THEN <<"'">> \o e.args \o <<"'">> ELSE e.args

----------------------------------------------------------------------------
(* Configuration and the query templates *)

delimiter == "___"

Lit(s) == [kind |-> "lit", text |-> s]

Field(n) == [kind |-> "field", text |-> n]

\* A template is the sequence of literal chunks and replacement fields that
\* str.format parses it into; whitespace inside a chunk is collapsed.
PREDEFINED_QUERIES ==
    [k \in {"get_sales_summary", "get_top_customers", "get_product_performance",
            "get_regional_breakdown", "get_inventory_status", "get_order_details"} |->
      CASE k = "get_sales_summary" ->
        <<Lit(" SELECT DATE_TRUNC('month', order_date) as month, SUM(total_amount) as total_sales, COUNT(DISTINCT order_id) as order_count FROM sales_table WHERE order_date >= DATE_ADD('month', -6, CURRENT_DATE) GROUP BY DATE_TRUNC('month', order_date) ORDER BY month DESC ")>>
        [] k = "get_top_customers" ->
        <<Lit(" SELECT customer_id, customer_name, SUM(total_amount) as lifetime_value, COUNT(order_id) as order_count FROM sales_table WHERE order_date >= DATE_ADD('year', -1, CURRENT_DATE) GROUP BY customer_id, customer_name ORDER BY lifetime_value DESC LIMIT "),
          Field("limit"),
          Lit(" ")>>
        [] k = "get_product_performance" ->
        <<Lit(" SELECT product_id, product_name, SUM(quantity) as units_sold, SUM(total_amount) as revenue, AVG(unit_price) as avg_price FROM sales_table WHERE order_date >= DATE_ADD('month', -"),
          Field("months"),
          Lit(", CURRENT_DATE) GROUP BY product_id, product_name ORDER BY revenue DESC LIMIT "),
          Field("limit"),
          Lit(" ")>>
        [] k = "get_regional_breakdown" ->
        <<Lit(" SELECT region, COUNT(DISTINCT customer_id) as unique_customers, SUM(total_amount) as total_revenue, AVG(total_amount) as avg_order_value FROM sales_table WHERE order_date >= DATE_ADD('month', -"),
          Field("months"),
          Lit(", CURRENT_DATE) GROUP BY region ORDER BY total_revenue DESC ")>>
        [] k = "get_inventory_status" ->
        <<Lit(" SELECT product_id, product_name, current_stock, reorder_level, CASE WHEN current_stock <= reorder_level THEN 'LOW' WHEN current_stock <= reorder_level * 1.5 THEN 'MEDIUM' ELSE 'GOOD' END as stock_status FROM inventory_table WHERE warehouse_id = '"),
          Field("warehouse_id"),
          Lit("' ORDER BY stock_status, current_stock ASC ")>>
        [] k = "get_order_details" ->
        <<Lit(" SELECT o.order_id, o.order_date, o.customer_name, o.total_amount, o.status, oi.product_name, oi.quantity, oi.unit_price FROM orders_table o JOIN order_items_table oi ON o.order_id = oi.order_id WHERE o.order_id = '"),
          Field("order_id"),
          Lit("' ")>>]

\* The replacement fields of a template, in template order
RECURSIVE Placeholders(_)
Placeholders(t) ==
    IF t = <<>> THEN <<>>
    ELSE IF Head(t).kind = "field" THEN <<Head(t).text>> \o Placeholders(Tail(t))
    ELSE Placeholders(Tail(t))

----------------------------------------------------------------------------
(* lambda_handler: tool name, lookup, binding, envelopes *)

\* original_tool_name[original_tool_name.index(delimiter) + len(delimiter):]
\* index() raises ValueError when the name holds no delimiter; otherwise the
\* name is cut after the first delimiter.
ExtractToolName(name) ==
    IF Len(name) < 2
    THEN Raise(Exc("ValueError", <<"substring not found">>))
    ELSE Ret(Tail(name))

\* the text of a name: its segments joined by the delimiter
RECURSIVE Join(_)
Join(segs) ==
    IF Len(segs) = 0 THEN <<>>
    ELSE IF Len(segs) = 1 THEN <<segs[1]>>
    ELSE <<segs[1], delimiter>> \o Join(Tail(segs))

\* tool_name not in PREDEFINED_QUERIES
IsKnownTool(tn) == Len(tn) = 1 /\ tn[1] \in DOMAIN PREDEFINED_QUERIES

UnknownToolResponse(tn) ==
    [success |-> FALSE, error |-> <<"Unknown tool: ">> \o Join(tn)]

\* fields looked up from the last one to the first
RECURSIVE Format_last_missing(_, _)
Format_last_missing(t, ev) ==
    IF t = <<>> THEN Ret(<<>>)
    ELSE LET h == Head(t)
             rest == Format_last_missing(Tail(t), ev) IN
         IF rest.kind = "raise" THEN rest
         ELSE IF h.kind = "field" /\ h.text \notin DOMAIN ev
              THEN Raise(Exc("KeyError", <<h.text>>))
              ELSE Ret((IF h.kind = "lit" THEN <<h.text>> ELSE ev[h.text]) \o rest.value)

\* only the first field is replaced, the later ones are left as they are
RECURSIVE Format_first_field_only(_, _, _)
Format_first_field_only(t, ev, done) ==
    IF t = <<>> THEN Ret(<<>>)
    ELSE LET h == Head(t) IN
         IF h.kind = "field" /\ h.text \notin DOMAIN ev
         THEN Raise(Exc("KeyError", <<h.text>>))
         ELSE LET rest == Format_first_field_only(Tail(t), ev, done \/ h.kind = "field") IN
              IF rest.kind = "raise" THEN rest
              ELSE Ret((IF h.kind = "lit" THEN <<h.text>>
                        ELSE IF done THEN <<"{", h.text, "}">>
                        ELSE ev[h.text]) \o rest.value)

Format_once(t, ev) == Format_first_field_only(t, ev, FALSE)

\* query_template.format(**event): fields are looked up left to right, the
\* first one that is not a key of the event raises KeyError(name); a value is
\* inserted as it is and is not parsed again.
RECURSIVE Format(_, _)
Format(t, ev) ==
    IF t = <<>> THEN Ret(<<>>)
    ELSE LET h == Head(t) IN
         IF h.kind = "field" /\ h.text \notin DOMAIN ev
         THEN Raise(Exc("KeyError", <<h.text>>))
         ELSE LET rest == Format(Tail(t), ev) IN
              IF rest.kind = "raise" THEN rest
              ELSE Ret((IF h.kind = "lit" THEN <<h.text>> ELSE ev[h.text]) \o rest.value)

MissingParameterResponse(e) ==
    [success |-> FALSE, error |-> <<"Missing required parameter: ">> \o Str(e)]

\* "Format response for the agent"
FormatResponse(res) ==
    IF res.success
    THEN [status |-> "success",
          data |-> res.rows,
          metadata |-> [columns |-> res.columns, row_count |-> res.row_count]]
    ELSE [status |-> "error", error |-> res.error]

\* no handler: the exception leaves lambda_handler
lambda_handler_except_missing(o) == o

\* except Exception as e, around the body of lambda_handler
lambda_handler_except(o) ==
    IF o.kind = "raise"
    THEN Ret([status |-> "error", error |-> Str(o.value)])
    ELSE o

----------------------------------------------------------------------------
(* execute_athena_query: polling and result materialization *)

max_attempts == 60

LoopContinues_inclusive(a) == a <= max_attempts

\* a loop that gives up one attempt early
LoopContinues_short(a) == a < max_attempts - 1

\* a loop without the attempt ceiling
LoopContinues_forever(a) == TRUE

\* while attempt < max_attempts
LoopContinues(a) == a < max_attempts

\* dict.get(key, default) on a dict modelled as "absent or one value"
Get(opt, default) == IF opt = {} THEN default ELSE CHOOSE v \in opt : TRUE

FailedResult_generic(stateChangeReason) ==
    [success |-> FALSE, error |-> <<"Unknown error">>]

\* status in ['FAILED', 'CANCELLED']: the failure result
FailedResult(stateChangeReason) ==
    [success |-> FALSE, error |-> Get(stateChangeReason, <<"Unknown error">>)]

\* the loop ran out of attempts
TimeoutResult ==
    [success |-> FALSE, error |-> <<"Query timeout - exceeded maximum wait time">>]

\* except Exception as e, around the body of execute_athena_query
execute_except(o) ==
    IF o.kind = "raise"
    THEN Ret([success |-> FALSE, error |-> Str(o.value)])
    ELSE o

\* A Datum of the service: a dict with the key VarCharValue, or without it
Datum(keys, v) == [k \in keys |-> v]

\* row['Data'][i].get('VarCharValue', '')
DatumValue(d) == IF "VarCharValue" \in DOMAIN d THEN d["VarCharValue"] ELSE ""

\* row_data[col] = value: a new key goes to the end, an existing key keeps
\* its place and takes the new value
DictSet(d, k, v) ==
    IF \E i \in 1..Len(d) : d[i][1] = k
    THEN [i \in 1..Len(d) |-> IF d[i][1] = k THEN <<k, v>> ELSE d[i]]
    ELSE Append(d, <<k, v>>)

\* for i, col in enumerate(columns): row_data[col] = row['Data'][i].get(...)
\* row['Data'][i] raises IndexError when the row has no cell i
RECURSIVE RowData(_, _, _, _)
RowData(data, columns, i, row_data) ==
    IF i > Len(columns) THEN Ret(row_data)
    ELSE IF i > Len(data)
         THEN Raise(Exc("IndexError", <<"list index out of range">>))
         ELSE RowData(data, columns, i + 1,
                      DictSet(row_data, columns[i], DatumValue(data[i])))

\* for row in result['ResultSet']['Rows'][1:]: rows.append(row_data)
\* the rows are parsed in order; the first row that raises ends the loop
ParseRows(service_rows, columns, rows) ==
    LET parsed == [i \in 1..Len(service_rows) |->
                     RowData(service_rows[i], columns, 1, <<>>)]
        raising == {i \in 1..Len(service_rows) : parsed[i].kind = "raise"}
    IN  IF raising # {}
        THEN parsed[CHOOSE i \in raising : \A j \in raising : i <= j]
        ELSE Ret(rows \o [i \in 1..Len(service_rows) |-> parsed[i].value])

\* Rows[1:], the slice that skips the header row
SkipHeader(service_rows) == SubSeq(service_rows, 2, Len(service_rows))

\* the header row is counted as a row
Materialize_counts_header(res) ==
    LET columns == res.columns
        parsed  == ParseRows(SkipHeader(res.Rows), columns, <<>>)
    IN  IF parsed.kind = "raise" THEN parsed
        ELSE Ret([success |-> TRUE,
                  columns |-> columns,
                  rows |-> parsed.value,
                  row_count |-> Len(res.Rows)])

\* "Parse results": columns, rows, and the success result
Materialize(res) ==
    LET columns == res.columns
        parsed  == ParseRows(SkipHeader(res.Rows), columns, <<>>)
    IN  IF parsed.kind = "raise" THEN parsed
        ELSE Ret([success |-> TRUE,
                  columns |-> columns,
                  rows |-> parsed.value,
                  row_count |-> Len(parsed.value)])

----------------------------------------------------------------------------
(* The tools the gateway offers to the agent *)

\* get_tool_schemas() of setup_gateway_with_identity.py: the list of tools the
\* gateway target registers, each with the properties of its inputSchema;
\* `defaulted` are the properties whose description documents a default
ToolSchema(name, properties, required, defaulted) ==
    [name |-> name, properties |-> properties, required |-> required,
     defaulted |-> defaulted]

\* a variant that registers one more property for the regional breakdown
get_tool_schemas_with_region ==
    <<ToolSchema("get_sales_summary", {}, {}, {}),
      ToolSchema("get_top_customers", {"limit"}, {}, {"limit"}),
      ToolSchema("get_product_performance", {"months", "limit"}, {"months"}, {"limit"}),
      ToolSchema("get_regional_breakdown", {"months", "region"}, {"months"}, {}),
      ToolSchema("get_inventory_status", {"warehouse_id"}, {"warehouse_id"}, {}),
      ToolSchema("get_order_details", {"order_id"}, {"order_id"}, {})>>

get_tool_schemas ==
    <<ToolSchema("get_sales_summary", {}, {}, {}),
      ToolSchema("get_top_customers", {"limit"}, {}, {"limit"}),
      ToolSchema("get_product_performance", {"months", "limit"}, {"months"}, {"limit"}),
      ToolSchema("get_regional_breakdown", {"months"}, {"months"}, {}),
      ToolSchema("get_inventory_status", {"warehouse_id"}, {"warehouse_id"}, {}),
      ToolSchema("get_order_details", {"order_id"}, {"order_id"}, {})>>

\* the names the gateway registers
RegisteredTools == {get_tool_schemas[i].name : i \in 1..Len(get_tool_schemas)}

\* the schema registered under a name
SchemaOf(n) ==
    get_tool_schemas[CHOOSE i \in 1..Len(get_tool_schemas) : get_tool_schemas[i].name = n]

\* "Available tools:" of SYSTEM_PROMPT of athena_agent.py
SYSTEM_PROMPT ==
    <<"get_sales_summary", "get_top_customers", "get_product_performance",
      "get_regional_breakdown", "get_inventory_status", "get_order_details">>

----------------------------------------------------------------------------
(* The inputs: what the gateway sends and what the query service answers *)

SeqsUpTo(S, n) == UNION {[1..k -> S] : k \in 0..n}

\* tool names as the gateway builds them, target___tool, and malformed ones
ToolNames ==
    {<<"athena-queries", k>> : k \in DOMAIN PREDEFINED_QUERIES}
      \cup {<<"athena-queries", "drop_table">>,
            <<"athena-queries", "v2", "get_sales_summary">>,
            <<"get_top_customers">>,
            <<"drop_table">>}

ParamNames == {"limit", "months", "warehouse_id", "order_id", "region"}

\* parameter values, one character per piece
ParamValues == {<<"1", "0">>, <<"{", "x", "}">>}

Events(n) ==
    UNION {[S -> ParamValues] : S \in {T \in SUBSET ParamNames : Cardinality(T) <= n}}

QueryStates == {"QUEUED", "RUNNING", "SUCCEEDED", "FAILED", "CANCELLED"}

\* a State the code has no branch for
UnrecognisedStates == {"PAUSED"}

\* reasons the service may give; the second one has the text of the timeout
Reasons ==
    {<<"SYNTAX_ERROR: line 1:8: Column 'x' cannot be resolved">>,
     <<"Query timeout - exceeded maximum wait time">>}

\* answers of get_query_execution: a Status, or a client error
PollAnswers ==
    {Ret([State |-> s, StateChangeReason |-> {}]) :
         s \in QueryStates \cup UnrecognisedStates}
      \cup {Ret([State |-> s, StateChangeReason |-> {r}]) :
              s \in {"FAILED", "CANCELLED"}, r \in Reasons}
      \cup {Raise(Exc("ClientError", <<"An error occurred (ThrottlingException) when calling the GetQueryExecution operation">>))}

\* answers of start_query_execution: a handle, or a client error
SubmitAnswers ==
    {Ret("query-execution-id"),
     Raise(Exc("ClientError", <<"An error occurred (AccessDeniedException) when calling the StartQueryExecution operation">>))}

Labels == {"a", "b"}

Cells == {Datum({}, "1"), Datum({"VarCharValue"}, "1")}

\* the first row of a result set echoes the column labels
HeaderRow(columns) == [i \in 1..Len(columns) |-> Datum({"VarCharValue"}, columns[i])]

\* data rows for n columns: a cell for each column, or one cell fewer
DataRows(n) == [1..n -> Cells] \cup (IF n = 0 THEN {} ELSE [1..(n - 1) -> Cells])

\* result sets of at most maxCols columns and maxRows rows (header included)
ResultSets(maxCols, maxRows) ==
    UNION {{[columns |-> c, Rows |-> <<>>]}
             \cup {[columns |-> c, Rows |-> <<HeaderRow(c)>> \o d] :
                     d \in SeqsUpTo(DataRows(Len(c)), maxRows - 1)}
           : c \in SeqsUpTo(Labels, maxCols)}

\* answers of get_query_results: a result set, or a client error
FetchAnswers(results) ==
    {Ret(r) : r \in results}
      \cup {Raise(Exc("ClientError", <<"An error occurred (InvalidRequestException) when calling the GetQueryResults operation">>))}

----------------------------------------------------------------------------
(* The state machine *)

None == [none |-> TRUE]

IsSuccess(r) == "status" \in DOMAIN r /\ r.status = "success"

IsError(r) == "status" \in DOMAIN r /\ r.status = "error"

\* invocations that may run at the same time
Invocations == {1, 2}

IdleInvocation ==
    [pc |-> "idle", query_execution_id |-> 0, attempt |-> 0, response |-> None]

ConcInit ==
    /\ inv = [i \in Invocations |-> IdleInvocation]
    /\ executions = <<>>

\* st.session_state without a key
Cleared == [k \in {} |-> TRUE]

\* the browser event that starts a script run
Widget(kind, text, password) == [kind |-> kind, text |-> text, password |-> password]

\* a browser session before its first script run: st.session_state is empty
UIInit ==
    /\ session_state = Cleared
    /\ run = "waiting"
    /\ widget = Widget("none", "", "")
    /\ now = 0
    /\ shown = "none"
    /\ cognito = 0
    /\ last = "none"

Init ==
    /\ ConcInit
    /\ UIInit
    /\ pc = "idle"
    /\ original_tool_name = <<>>
    /\ event = <<>>
    /\ tool_name = <<>>
    /\ query = <<>>
    /\ attempt = 0
    /\ status = ""
    /\ reason = {}
    /\ fetched = {}
    /\ result = None
    /\ response = None
    /\ submits = 0
    /\ polls = 0
    /\ fetches = 0
    /\ running = 0
    /\ fault = "none"
    /\ afterFault = FALSE
    /\ stored = 0

\* the gateway invokes the function
Invoke(names, events) ==
    /\ pc = "idle"
    /\ \E n \in names, e \in events :
         /\ original_tool_name' = n
         /\ event' = e
    /\ pc' = "handler"
    /\ UNCHANGED <<tool_name, query, attempt, status, reason, fetched, result,
                   response, submits, polls, fetches, running, fault, afterFault>>
    /\ UNCHANGED <<stored, others>>

\* lambda_handler returns h.value, or lets the exception h.value out
Deliver(h) ==
    IF h.kind = "raise"
    THEN pc' = "crashed" /\ response' = None
    ELSE pc' = "done" /\ response' = h.value

\* execute_athena_query ends with outcome o; lambda_handler shapes the result
Finish(o) ==
    LET r == execute_except(o) IN
    /\ result' = IF r.kind = "raise" THEN None ELSE r.value
    /\ Deliver(lambda_handler_except(
                 IF r.kind = "raise" THEN r ELSE Ret(FormatResponse(r.value))))

\* lambda_handler up to the call of execute_athena_query
Dispatch ==
    /\ pc = "handler"
    /\ LET ex == ExtractToolName(original_tool_name) IN
       IF ex.kind = "raise"
       THEN /\ Deliver(lambda_handler_except(ex))
            /\ fault' = "extract"
            /\ UNCHANGED <<tool_name, query>>
       ELSE /\ tool_name' = ex.value
            /\ fault' = fault
            /\ IF ~IsKnownTool(ex.value)
               THEN /\ Deliver(lambda_handler_except(Ret(UnknownToolResponse(ex.value))))
                    /\ query' = query
               ELSE LET b == Format(PREDEFINED_QUERIES[ex.value[1]], event) IN
                    IF b.kind = "raise"
                    THEN /\ Deliver(lambda_handler_except(
                                      Ret(MissingParameterResponse(b.value))))
                         /\ query' = query
                    ELSE /\ query' = b.value
                         /\ pc' = "submit"
                         /\ response' = response
    /\ UNCHANGED <<original_tool_name, event, attempt, status, reason, fetched,
                   result, submits, polls, fetches, running, afterFault>>
    /\ UNCHANGED <<stored, others>>

\* a variant that submits again after a failed submission
StartQuery_retry ==
    /\ pc = "submit"
    /\ submits' = submits + 1
    /\ \E a \in SubmitAnswers :
         IF a.kind = "raise"
         THEN /\ pc' = "submit"
              /\ fault' = "submit"
              /\ UNCHANGED <<attempt, result, response>>
         ELSE /\ attempt' = 0
              /\ pc' = "poll"
              /\ UNCHANGED <<result, response, fault>>
    /\ UNCHANGED <<original_tool_name, event, tool_name, query, status, reason,
                   fetched, polls, fetches, running, afterFault>>
    /\ UNCHANGED <<stored, others>>

\* athena_client.start_query_execution(QueryString=query, ...)
StartQuery ==
    /\ pc = "submit"
    /\ submits' = submits + 1
    /\ \E a \in SubmitAnswers :
         IF a.kind = "raise"
         THEN /\ Finish(a)
              /\ fault' = "submit"
              /\ attempt' = attempt
         ELSE /\ attempt' = 0
              /\ pc' = "poll"
              /\ UNCHANGED <<result, response, fault>>
    /\ UNCHANGED <<original_tool_name, event, tool_name, query, status, reason,
                   fetched, polls, fetches, running, afterFault>>
    /\ UNCHANGED <<stored, others>>

\* one pass of the loop: get_query_execution, then the branch on the status
PollStatus(answers) ==
    /\ pc = "poll"
    /\ LoopContinues(attempt)
    /\ polls' = polls + 1
    /\ \E a \in answers :
         IF a.kind = "raise"
         THEN /\ Finish(a)
              /\ fault' = "poll"
              /\ UNCHANGED <<status, reason, attempt, running>>
         ELSE /\ status' = a.value.State
              /\ reason' = a.value.StateChangeReason
              /\ fault' = fault
              /\ IF a.value.State = "SUCCEEDED"
                 THEN /\ pc' = "fetch"
                      /\ UNCHANGED <<attempt, running, result, response>>
                 ELSE IF a.value.State \in {"FAILED", "CANCELLED"}
                 THEN /\ Finish(Ret(FailedResult(a.value.StateChangeReason)))
                      /\ UNCHANGED <<attempt, running>>
                 ELSE /\ attempt' = attempt + 1
                      /\ running' = running + 1
                      /\ pc' = "poll"
                      /\ UNCHANGED <<result, response>>
    /\ UNCHANGED <<original_tool_name, event, tool_name, query, fetched, submits,
                   fetches, afterFault>>
    /\ UNCHANGED <<stored, others>>

\* the loop condition fails: the timeout result
PollTimeout ==
    /\ pc = "poll"
    /\ ~LoopContinues(attempt)
    /\ Finish(Ret(TimeoutResult))
    /\ UNCHANGED <<original_tool_name, event, tool_name, query, attempt, status,
                   reason, fetched, submits, polls, fetches, running, fault,
                   afterFault>>
    /\ UNCHANGED <<stored, others>>

\* the page size of the one fetch
MaxResults == 100

\* the service side of get_query_results: the first MaxResults rows of the
\* stored result, the header row counted
get_query_results(res, maxResults) ==
    [columns |-> res.columns,
     Rows |-> SubSeq(res.Rows, 1, IF Len(res.Rows) < maxResults
                                  THEN Len(res.Rows) ELSE maxResults)]

\* data rows of a stored result: every row but the header
DataRowCount(res) == IF Len(res.Rows) = 0 THEN 0 ELSE Len(res.Rows) - 1

\* get_query_results(QueryExecutionId=..., MaxResults=100) and the parsing;
\* `results` are the results a query may have produced in the service
FetchResults(results) ==
    /\ pc = "fetch"
    /\ fetches' = fetches + 1
    /\ \E a \in FetchAnswers(results) :
         IF a.kind = "raise"
         THEN /\ Finish(a)
              /\ fault' = "fetch"
              /\ fetched' = fetched
              /\ stored' = stored
         ELSE LET page == get_query_results(a.value, MaxResults)
                  m == Materialize(page) IN
              /\ fetched' = {page}
              /\ stored' = DataRowCount(a.value)
              /\ Finish(m)
              /\ fault' = IF m.kind = "raise" THEN "parse" ELSE fault
    /\ UNCHANGED <<original_tool_name, event, tool_name, query, attempt, status,
                   reason, submits, polls, running, afterFault>>
    /\ UNCHANGED others

\* the response is handed to the gateway; the locals of the call are gone
Return ==
    /\ pc = "done"
    /\ pc' = "idle"
    /\ original_tool_name' = <<>>
    /\ event' = <<>>
    /\ tool_name' = <<>>
    /\ query' = <<>>
    /\ attempt' = 0
    /\ status' = ""
    /\ reason' = {}
    /\ fetched' = {}
    /\ result' = None
    /\ response' = None
    /\ submits' = 0
    /\ polls' = 0
    /\ fetches' = 0
    /\ running' = 0
    /\ fault' = "none"
    /\ afterFault' = (afterFault \/ fault # "none")
    /\ stored' = 0
    /\ UNCHANGED others

\* some result sets: one data row; two columns and two data rows, one cell
\* without a value; no row at all; a data row shorter than the columns
SampleResult ==
    [columns |-> <<"a">>,
     Rows |-> <<HeaderRow(<<"a">>), <<Datum({"VarCharValue"}, "1")>>>>]

SampleResults ==
    {SampleResult,
     [columns |-> <<"a", "b">>,
      Rows |-> <<HeaderRow(<<"a", "b">>),
                 <<Datum({"VarCharValue"}, "1"), Datum({}, "1")>>,
                 <<Datum({"VarCharValue"}, "2"), Datum({"VarCharValue"}, "3")>>>>],
     [columns |-> <<"a">>, Rows |-> <<>>],
     [columns |-> <<"a", "b">>,
      Rows |-> <<HeaderRow(<<"a", "b">>), <<Datum({"VarCharValue"}, "1")>>>>]}

\* the handler with every tool name and every event, against a service that
\* may answer anything to a poll
Next ==
    \/ Invoke(ToolNames, Events(MaxEventKeys))
    \/ Dispatch
    \/ StartQuery
    \/ PollStatus(PollAnswers)
    \/ PollTimeout
    \/ FetchResults(SampleResults)
    \/ Return

Spec == Init /\ [][Next]_allVars

\* one request, against a service that reports SUCCEEDED on the first poll
\* and may return any result set
InventoryRequest == <<"athena-queries", "get_inventory_status">>

InventoryEvent == [k \in {"warehouse_id"} |-> <<"W", "H", "0", "0", "1">>]

NextMat ==
    \/ Invoke({InventoryRequest}, {InventoryEvent})
    \/ Dispatch
    \/ StartQuery
    \/ PollStatus({Ret([State |-> "SUCCEEDED", StateChangeReason |-> {}])})
    \/ FetchResults(ResultSets(MaxCols, MaxRows))
    \/ Return

SpecMat == Init /\ [][NextMat]_allVars

\* one request, against a service that reports SUCCEEDED on the first poll
\* and holds a result of one column and any number of data rows up to
\* MaxStoredRows
LongResults(n) ==
    {[columns |-> <<"a">>,
      Rows |-> <<HeaderRow(<<"a">>)>>
                 \o [i \in 1..k |-> <<Datum({"VarCharValue"}, "1")>>]] : k \in 0..n}

NextPage ==
    \/ Invoke({InventoryRequest}, {InventoryEvent})
    \/ Dispatch
    \/ StartQuery
    \/ PollStatus({Ret([State |-> "SUCCEEDED", StateChangeReason |-> {}])})
    \/ FetchResults(LongResults(MaxStoredRows))
    \/ Return

SpecPage == Init /\ [][NextPage]_allVars

\* one request, against a service that may answer anything to a poll; the
\* steps of the handler are taken as long as they are possible: the code runs
\* from call to call, and every call of the client returns or raises
NextLive ==
    \/ Invoke({InventoryRequest}, {InventoryEvent})
    \/ Dispatch
    \/ StartQuery
    \/ PollStatus(PollAnswers)
    \/ PollTimeout
    \/ FetchResults({SampleResult})
    \/ Return

SpecLive ==
    /\ Init
    /\ [][NextLive]_allVars
    /\ WF_allVars(Dispatch)
    /\ WF_allVars(StartQuery)
    /\ WF_allVars(PollStatus(PollAnswers))
    /\ WF_allVars(PollTimeout)
    /\ WF_allVars(FetchResults({SampleResult}))

----------------------------------------------------------------------------
(* Concurrent invocations: each has its own locals; the service is shared *)

ResultOf(v) ==
    [columns |-> <<"a">>,
     Rows |-> <<HeaderRow(<<"a">>), <<Datum({"VarCharValue"}, v)>>>>]

StatusAnswer(s, r) == Ret([State |-> s, StateChangeReason |-> r])

\* what the service does with one execution: the answers to its successive
\* polls (the last one repeated) and the answer to a fetch
Scripts ==
    {[answers |-> <<StatusAnswer("SUCCEEDED", {})>>, result |-> Ret(ResultOf("1"))],
     [answers |-> <<StatusAnswer("QUEUED", {}), StatusAnswer("SUCCEEDED", {})>>,
      result |-> Ret(ResultOf("2"))],
     [answers |-> <<StatusAnswer("RUNNING", {}),
                    StatusAnswer("FAILED", {<<"SYNTAX_ERROR: line 1:8: Column 'x' cannot be resolved">>})>>,
      result |-> Ret(ResultOf("3"))],
     [answers |-> <<StatusAnswer("RUNNING", {})>>, result |-> Ret(ResultOf("4"))],
     [answers |-> <<StatusAnswer("SUCCEEDED", {})>>,
      result |-> Raise(Exc("ClientError", <<"An error occurred (InvalidRequestException) when calling the GetQueryResults operation">>))]}

AnswerAt(script, n) ==
    script.answers[IF n < Len(script.answers) THEN n ELSE Len(script.answers)]

\* a variant: the handle kept in a variable of the module, shared by the
\* invocations of the process
HandleOf_shared(i) == Len(executions)

\* the handle an invocation polls and fetches with: its local query_execution_id
HandleOf(i) == inv[i].query_execution_id

\* the response of lambda_handler when execute_athena_query ends with outcome o
Shape(o) ==
    LET r == execute_except(o) IN
    lambda_handler_except(
        IF r.kind = "raise" THEN r ELSE Ret(FormatResponse(r.value))).value

Called(h, i) == [executions EXCEPT ![h].callers = @ \cup {i}]

\* the gateway invokes the function; lambda_handler binds the query
ConcInvoke(i) ==
    /\ inv[i].pc = "idle"
    /\ Len(executions) + Cardinality({j \in Invocations : inv[j].pc = "submit"})
         < MaxExecutions
    /\ Format(PREDEFINED_QUERIES[InventoryRequest[2]], InventoryEvent).kind = "return"
    /\ inv' = [inv EXCEPT ![i].pc = "submit"]
    /\ UNCHANGED <<executions, vars, uiVars>>

\* start_query_execution: the service starts an execution and returns its handle
ConcStartQuery(i) ==
    /\ inv[i].pc = "submit"
    /\ \E a \in SubmitAnswers, s \in Scripts :
         IF a.kind = "raise"
         THEN /\ inv' = [inv EXCEPT ![i].pc = "done", ![i].response = Shape(a)]
              /\ executions' = executions
         ELSE /\ executions' = Append(executions,
                                      [owner |-> i, script |-> s, served |-> 0,
                                       callers |-> {}])
              /\ inv' = [inv EXCEPT ![i].pc = "poll",
                                    ![i].query_execution_id = Len(executions) + 1,
                                    ![i].attempt = 0]
    /\ UNCHANGED <<vars, uiVars>>

\* one pass of the loop of one invocation
ConcPollStatus(i) ==
    /\ inv[i].pc = "poll"
    /\ LoopContinues(inv[i].attempt)
    /\ LET h == HandleOf(i)
           n == executions[h].served + 1
           a == AnswerAt(executions[h].script, n)
       IN  /\ executions' = [Called(h, i) EXCEPT ![h].served = n]
           /\ IF a.kind = "raise"
              THEN inv' = [inv EXCEPT ![i].pc = "done", ![i].response = Shape(a)]
              ELSE IF a.value.State = "SUCCEEDED"
              THEN inv' = [inv EXCEPT ![i].pc = "fetch"]
              ELSE IF a.value.State \in {"FAILED", "CANCELLED"}
              THEN inv' = [inv EXCEPT
                             ![i].pc = "done",
                             ![i].response =
                                Shape(Ret(FailedResult(a.value.StateChangeReason)))]
              ELSE inv' = [inv EXCEPT ![i].attempt = @ + 1]
    /\ UNCHANGED <<vars, uiVars>>

ConcPollTimeout(i) ==
    /\ inv[i].pc = "poll"
    /\ ~LoopContinues(inv[i].attempt)
    /\ inv' = [inv EXCEPT ![i].pc = "done", ![i].response = Shape(Ret(TimeoutResult))]
    /\ UNCHANGED <<executions, vars, uiVars>>

ConcFetchResults(i) ==
    /\ inv[i].pc = "fetch"
    /\ LET h == HandleOf(i)
           a == executions[h].script.result
       IN  /\ executions' = Called(h, i)
           /\ inv' = [inv EXCEPT
                        ![i].pc = "done",
                        ![i].response =
                           Shape(IF a.kind = "raise" THEN a
                                 ELSE Materialize(get_query_results(a.value, MaxResults)))]
    /\ UNCHANGED <<vars, uiVars>>

\* the response is handed to the gateway; the locals of the call are gone
ConcReturn(i) ==
    /\ inv[i].pc = "done"
    /\ inv' = [inv EXCEPT ![i] = IdleInvocation]
    /\ UNCHANGED <<executions, vars, uiVars>>

NextConc ==
    \/ \E i \in Invocations : ConcInvoke(i)
    \/ \E i \in Invocations : ConcStartQuery(i)
    \/ \E i \in Invocations : ConcPollStatus(i)
    \/ \E i \in Invocations : ConcPollTimeout(i)
    \/ \E i \in Invocations : ConcFetchResults(i)
    \/ \E i \in Invocations : ConcReturn(i)

SpecConc == Init /\ [][NextConc]_allVars

----------------------------------------------------------------------------
(* streamlit_app.py: the script runs of one browser session.  Every          *)
(* interaction of the user starts a run of main() from the top;              *)
(* st.session_state is what survives from run to run; st.rerun() ends the    *)
(* run and starts the next one.                                              *)

Has(k) == k \in DOMAIN session_state

\* d[k] = v and del d[k] on a dict
Put(d, k, v) == [x \in DOMAIN d \cup {k} |-> IF x = k THEN v ELSE d[x]]

Del(d, k) == [x \in DOMAIN d \ {k} |-> d[x]]

\* d.get(k, default)
GetKey(d, k, default) == IF k \in DOMAIN d THEN d[k] ELSE default

\* dict.update
Update(d, e) == [x \in DOMAIN d \cup DOMAIN e |-> IF x \in DOMAIN e THEN e[x] ELSE d[x]]

\* a variant that deletes the keys of the login only
clear_session_login_only(d) == Del(Del(Del(d, "authenticated"), "auth_data"), "login_time")

\* for key in list(st.session_state.keys()): del st.session_state[key]
clear_session(d) == [x \in {} |-> d[x]]

\* timedelta(minutes=50)
RefreshAfter == 50

RefreshDue_inclusive(t, login_time) == t - login_time >= RefreshAfter

\* datetime.now() - login_time > timedelta(minutes=50)
RefreshDue(t, login_time) == t - login_time > RefreshAfter

\* what CognitoAuth.authenticate returns for the n-th token set of the pool
AuthResult(n, username) ==
    [access_token |-> <<"access", n>>,
     id_token |-> <<"id", n>>,
     refresh_token |-> <<"refresh", n>>,
     expires_in |-> 3600,
     username |-> username,
     email |-> username,
     name |-> "Ana",
     role |-> "analyst"]

\* what CognitoAuth.refresh_token returns for the n-th token set of the pool
NewTokens(n) ==
    [access_token |-> <<"access", n>>, id_token |-> <<"id", n>>, expires_in |-> 3600]

Greeting(name) ==
    [role |-> "assistant",
     content |-> <<"Hello ", name, "! I'm your Athena Analytics Assistant.">>]

quick_queries == <<"Show me sales trends for the last 6 months">>

\* what the user may do between two runs
Widgets ==
    {Widget("open", "", "")}
      \cup {Widget("login", u, p) : u \in {"", "analyst@example.com"},
                                    p \in {"", "TempPass123!"}}
      \cup {Widget("prompt", "How many orders last week?", "")}
      \cup {Widget("quick", quick_queries[i], "") : i \in 1..Len(quick_queries)}
      \cup {Widget("arn", a, "") : a \in {"", "arn:aws:bedrock-agentcore:runtime/athena"}}
      \cup {Widget("logout", "", "")}

\* the widget is on the page the last run rendered
Available(w) ==
    CASE w.kind = "open" -> TRUE
      [] w.kind = "login" -> shown = "login"
      [] w.kind \in {"prompt", "quick"} ->
           /\ shown = "chat"
           /\ Len(GetKey(session_state, "messages", <<>>)) + 2 <= MaxMessages
      [] OTHER -> shown = "chat"

\* minutes that may pass before the user acts
Delays == {0, 50, 51}

\* answers of agentcore_runtime.invoke_agent_runtime: the text of the
\* completion stream, or an exception
AgentAnswers ==
    {Ret(<<"Orders last week: 42">>),
     Raise(Exc("ClientError", <<"An error occurred (AccessDeniedException) when calling the InvokeAgentRuntime operation">>))}

\* the user acts: the script runs again from the top
Interact ==
    /\ run = "waiting"
    /\ \E w \in Widgets, d \in Delays :
         /\ Available(w)
         /\ now + d <= MaxNow
         /\ now' = now + d
         /\ widget' = w
    /\ run' = "main"
    /\ UNCHANGED <<session_state, shown, cognito, last, vars, concVars>>

\* st.rerun(): the run ends here and the next one starts, no widget touched
Rerun ==
    /\ run' = "main"
    /\ widget' = Widget("none", "", "")

\* the script reaches its end: the event of the widget is used up
EndOfRun ==
    /\ run' = "waiting"
    /\ widget' = Widget("none", "", "")

\* main(), up to the call of login_page() or chat_interface()
Main ==
    /\ run = "main"
    /\ IF ~Has("authenticated") \/ ~session_state["authenticated"]
       THEN /\ run' = "login_page"
            /\ UNCHANGED <<session_state, widget, cognito, last>>
       ELSE IF RefreshDue(now, GetKey(session_state, "login_time", now))
       THEN \E refreshed \in BOOLEAN :
              IF refreshed
              THEN /\ cognito < MaxTokens
                   /\ cognito' = cognito + 1
                   /\ session_state' =
                        Put(Put(session_state, "auth_data",
                                Update(session_state["auth_data"], NewTokens(cognito + 1))),
                            "login_time", now)
                   /\ run' = "chat"
                   /\ widget' = widget
                   /\ last' = "refresh_ok"
              ELSE /\ session_state' = clear_session(session_state)
                   /\ Rerun
                   /\ cognito' = cognito
                   /\ last' = "refresh_failed"
       ELSE /\ run' = "chat"
            /\ UNCHANGED <<session_state, widget, cognito, last>>
    /\ UNCHANGED <<now, shown, vars, concVars>>

\* login_page()
LoginPage ==
    /\ run = "login_page"
    /\ shown' = "login"
    /\ IF widget.kind # "login"
       THEN /\ EndOfRun
            /\ UNCHANGED <<session_state, cognito, last>>
       ELSE IF widget.text = "" \/ widget.password = ""
       THEN /\ EndOfRun
            /\ last' = "login_rejected"
            /\ UNCHANGED <<session_state, cognito>>
       ELSE \E authenticated \in BOOLEAN :
              IF authenticated
              THEN /\ cognito < MaxTokens
                   /\ cognito' = cognito + 1
                   /\ session_state' =
                        Put(Put(Put(session_state, "authenticated", TRUE),
                                "auth_data", AuthResult(cognito + 1, widget.text)),
                            "login_time", now)
                   /\ Rerun
                   /\ last' = "login_ok"
              ELSE /\ EndOfRun
                   /\ last' = "login_failed"
                   /\ UNCHANGED <<session_state, cognito>>
    /\ UNCHANGED <<now, vars, concVars>>

\* chat_interface(): the sidebar
ChatSidebar ==
    /\ run = "chat"
    /\ shown' = "chat"
    /\ IF ~Has("auth_data")
       THEN /\ run' = "crashed"
            /\ UNCHANGED <<session_state, widget, last>>
       ELSE LET agent_arn == IF widget.kind = "arn" THEN widget.text
                             ELSE GetKey(session_state, "agent_arn", "")
                withArn == Put(session_state, "agent_arn", agent_arn)
                withQuery == IF widget.kind = "quick"
                             THEN Put(withArn, "selected_query", widget.text)
                             ELSE withArn
            IN  IF widget.kind = "logout"
                THEN /\ session_state' = clear_session(withQuery)
                     /\ Rerun
                     /\ last' = "logout"
                ELSE /\ session_state' = withQuery
                     /\ run' = "chat_main"
                     /\ UNCHANGED <<widget, last>>
    /\ UNCHANGED <<now, cognito, vars, concVars>>

\* chat_interface(): the history, the prompt and the user message
ChatPrompt ==
    /\ run = "chat_main"
    /\ LET started == IF Has("messages") THEN session_state
                      ELSE Put(session_state, "messages",
                               <<Greeting(session_state["auth_data"].name)>>)
           prompt == IF Has("selected_query") THEN session_state["selected_query"]
                     ELSE IF widget.kind = "prompt" THEN widget.text ELSE ""
           taken == Del(started, "selected_query")
       IN  IF prompt # ""
           THEN /\ session_state' =
                     Put(taken, "messages",
                         Append(taken["messages"], [role |-> "user", content |-> <<prompt>>]))
                /\ run' = "agent"
                /\ widget' = widget
           ELSE /\ session_state' = taken
                /\ EndOfRun
    /\ UNCHANGED <<now, shown, cognito, last, vars, concVars>>

\* invoke_agent without its handler: the exception leaves the function
invoke_agent_raises(o) == o

\* invoke_agent: except Exception as e: return f"... Error invoking agent: {str(e)}"
invoke_agent(o) ==
    IF o.kind = "raise"
    THEN Ret(<<"Error invoking agent: ">> \o Str(o.value))
    ELSE o

\* chat_interface(): invoke_agent and the assistant message
InvokeAgent ==
    /\ run = "agent"
    /\ \E a \in AgentAnswers :
         LET o == IF GetKey(session_state, "agent_arn", "") = ""
                  THEN Ret(<<"Agent ARN not configured. Please set it in the sidebar.">>)
                  ELSE invoke_agent(a)
         IN  IF o.kind = "raise"
             THEN /\ run' = "crashed"
                  /\ UNCHANGED <<session_state, widget>>
             ELSE /\ session_state' =
                       Put(session_state, "messages",
                           Append(session_state["messages"],
                                  [role |-> "assistant", content |-> o.value]))
                  /\ EndOfRun
    /\ last' = "agent"
    /\ UNCHANGED <<now, shown, cognito, vars, concVars>>

NextUI ==
    \/ Interact
    \/ Main
    \/ LoginPage
    \/ ChatSidebar
    \/ ChatPrompt
    \/ InvokeAgent

SpecUI == Init /\ [][NextUI]_allVars

----------------------------------------------------------------------------
(* The agent calls the tools the gateway lists *)

\* the names the gateway hands to the Lambda: target name, delimiter, tool name
AgentToolNames == {<<"athena-queries", n>> : n \in RegisteredTools}

DeclaredProperties ==
    UNION {get_tool_schemas[i].properties : i \in 1..Len(get_tool_schemas)}

\* the arguments of a call: any of the declared properties
AgentEvents == UNION {[S -> {<<"1", "0">>}] : S \in SUBSET DeclaredProperties}

\* the registered tools, called with declared properties, against a service
\* that reports SUCCEEDED on the first poll
NextAgent ==
    \/ Invoke(AgentToolNames, AgentEvents)
    \/ Dispatch
    \/ StartQuery
    \/ PollStatus({Ret([State |-> "SUCCEEDED", StateChangeReason |-> {}])})
    \/ FetchResults({SampleResult})
    \/ Return

SpecAgent == Init /\ [][NextAgent]_allVars

----------------------------------------------------------------------------
(* Properties *)

NonTerminal == {"QUEUED", "RUNNING"}

\* C1: when the service reports SUCCEEDED on poll k (after k - 1 non-terminal
\* answers), 1 <= k <= 60, exactly k polls are issued and the result is a
\* success; when 60 polls all report a non-terminal state, exactly 60 polls
\* are issued and the timeout error is returned.
PollsUntilSucceededOrTimeout ==
    /\ polls <= 60
    /\ (status = "SUCCEEDED" /\ pc \in {"fetch", "done"})
         => polls = running + 1 /\ polls \in 1..60
    /\ (pc = "done" /\ status = "SUCCEEDED" /\ fault = "none")
         => result.success /\ IsSuccess(response) /\ fetches = 1
    /\ (pc = "done" /\ submits = 1 /\ status \in NonTerminal /\ fault = "none")
         => /\ polls = 60
            /\ running = 60
            /\ result = [success |-> FALSE,
                         error |-> <<"Query timeout - exceeded maximum wait time">>]
            /\ response = [status |-> "error",
                           error |-> <<"Query timeout - exceeded maximum wait time">>]
    /\ (pc = "poll" /\ running = 60) => ~ENABLED PollStatus(PollAnswers)

SucceededOnLastPoll ==
    /\ pc = "done"
    /\ status = "SUCCEEDED"
    /\ running = 59
    /\ polls = 60
    /\ IsSuccess(response)

\* C2: when a poll reports FAILED or CANCELLED, execute_athena_query returns
\* a failure whose error is the StateChangeReason of that poll, or "Unknown
\* error" when there is none; that poll is the last service call: no further
\* poll and no result fetch.
FailedOrCancelledReturnsReason ==
    (status \in {"FAILED", "CANCELLED"})
      => /\ pc = "done"
         /\ DOMAIN result = {"success", "error"}
         /\ result.success = FALSE
         /\ (reason = {} => result.error = <<"Unknown error">>)
         /\ \A r \in reason : result.error = r
         /\ response = [status |-> "error", error |-> result.error]
         /\ polls = running + 1
         /\ fetches = 0
         /\ ~ENABLED PollStatus(PollAnswers)
         /\ ~ENABLED FetchResults(SampleResults)

CancelledWithoutReason ==
    /\ pc = "done"
    /\ status = "CANCELLED"
    /\ reason = {}
    /\ running = 2
    /\ result.error = <<"Unknown error">>

\* the tool name resolves to a template
Resolved == Len(original_tool_name) >= 2 /\ IsKnownTool(Tail(original_tool_name))

Template == PREDEFINED_QUERIES[original_tool_name[2]]

Started == pc \notin {"idle", "handler"}

\* the first placeholder of the template, in template order, that the event lacks
FirstMissing ==
    LET ph == Placeholders(Template)
        i  == CHOOSE i \in 1..Len(ph) :
                /\ ph[i] \notin DOMAIN event
                /\ \A j \in 1..(i - 1) : ph[j] \in DOMAIN event
    IN  ph[i]

AllSupplied == \A i \in 1..Len(Placeholders(Template)) : Placeholders(Template)[i] \in DOMAIN event

ToolIdentifier == IF Len(original_tool_name) >= 2 THEN Tail(original_tool_name)
                  ELSE original_tool_name

\* C4: a tool identifier that is not a key of PREDEFINED_QUERIES always gets
\* the unknown-tool error, whatever the parameters and whatever the form of
\* the incoming name (with or without the delimiter), and no query is
\* submitted.
UnknownToolAlwaysClassified ==
    (Started /\ ~IsKnownTool(ToolIdentifier))
      => /\ pc = "done"
         /\ "error" \in DOMAIN response
         /\ response.error = <<"Unknown tool: ">> \o Join(ToolIdentifier)
         /\ submits = 0

\* each placeholder of the template replaced by its value in the event
RECURSIVE Substituted(_, _)
Substituted(t, ev) ==
    IF t = <<>> THEN <<>>
    ELSE (IF Head(t).kind = "lit" THEN <<Head(t).text>> ELSE ev[Head(t).text])
           \o Substituted(Tail(t), ev)

\* the text holds a marker: "{", then "}", no brace between them
HasMarker(q) ==
    \E i, j \in 1..Len(q) :
       /\ i < j
       /\ q[i] = "{"
       /\ q[j] = "}"
       /\ \A m \in (i + 1)..(j - 1) : q[m] \notin {"{", "}"}

HasBrace(v) == \E i \in 1..Len(v) : v[i] \in {"{", "}"}

BindingSucceeded ==
    /\ pc \in {"submit", "poll", "fetch", "done"}
    /\ pc = "submit" \/ submits = 1
    /\ query # <<>>
    /\ query = Substituted(Template, event)

\* C5 as stated: for every template, an event that holds every placeholder
\* binds, parameters the template does not use do not change the bound query,
\* and the bound query holds no {...} marker, whatever the values.
BindingLeavesNoMarker ==
    (Started /\ Resolved /\ AllSupplied)
      => BindingSucceeded /\ ~HasMarker(query)

\* C5, amended: for every template, an event that holds every placeholder
\* binds, parameters the template does not use do not change the bound query,
\* and the bound query holds no {...} marker when no value bound to a
\* placeholder of the template holds a brace.
BindingLeavesNoMarkerOfItsOwn ==
    (Started /\ Resolved /\ AllSupplied)
      => /\ BindingSucceeded
         /\ (\A i \in 1..Len(Placeholders(Template)) :
                ~HasBrace(event[Placeholders(Template)[i]]))
              => ~HasMarker(query)

BoundWithUnusedParameter ==
    /\ pc = "submit"
    /\ tool_name = <<"get_top_customers">>
    /\ DOMAIN event = {"limit", "region"}
    /\ event["limit"] = <<"1", "0">>
    /\ event["region"] = <<"{", "x", "}">>
    /\ ~HasMarker(query)

\* the result set of this invocation
Fetched == CHOOSE f \in fetched : TRUE

Parsed == pc = "done" /\ fetched # {} /\ IsSuccess(response)

\* C6: materialization drops exactly the first row of the service and gives
\* one output row per remaining row, in the order of the service; every cell
\* of a row is in its output row under the label of its column, a cell
\* without a value as the empty string.
MaterializationKeepsEveryCell ==
    Parsed
      => /\ Len(response.data) = (IF Fetched.Rows = <<>> THEN 0 ELSE Len(Fetched.Rows) - 1)
         /\ \A i \in 1..Len(response.data) :
              \A j \in 1..Len(Fetched.columns) :
                 \E p \in 1..Len(response.data[i]) :
                    response.data[i][p] =
                      <<Fetched.columns[j],
                        IF "VarCharValue" \in DOMAIN Fetched.Rows[i + 1][j]
                        THEN Fetched.Rows[i + 1][j]["VarCharValue"]
                        ELSE "">>

\* the keys of a row mapping, in order
Keys(d) == [p \in 1..Len(d) |-> d[p][1]]

\* C7: in every successful result the keys of every row, in order, are the
\* column sequence.
RowKeysAreTheColumns ==
    (pc = "done" /\ IsSuccess(response))
      => \A i \in 1..Len(response.data) :
            Keys(response.data[i]) = response.metadata.columns

\* C8: a success envelope carries the materialized rows as data, the column
\* labels of the service as metadata.columns and the number of rows in data
\* as metadata.row_count; SUCCEEDED at once with one data row gives
\* row_count = 1.
SuccessEnvelopeMetadata ==
    (pc = "done" /\ IsSuccess(response))
      => /\ DOMAIN response = {"status", "data", "metadata"}
         /\ fetched # {}
         /\ response.data = result.rows
         /\ Len(response.data) = (IF Fetched.Rows = <<>> THEN 0 ELSE Len(Fetched.Rows) - 1)
         /\ response.metadata.columns = Fetched.columns
         /\ response.metadata.row_count = Len(response.data)
         /\ (running = 0 /\ Len(Fetched.Rows) = 2) => response.metadata.row_count = 1

InventoryOneRow ==
    /\ pc = "done"
    /\ tool_name = <<"get_inventory_status">>
    /\ event = InventoryEvent
    /\ polls = 1
    /\ running = 0
    /\ Len(Fetched.Rows) = 2
    /\ IsSuccess(response)
    /\ response.metadata.row_count = 1

\* the state of the handler between two invocations
Fresh ==
    /\ original_tool_name = <<>> /\ event = <<>> /\ tool_name = <<>> /\ query = <<>>
    /\ attempt = 0 /\ status = "" /\ reason = {} /\ fetched = {}
    /\ result = None /\ response = None
    /\ submits = 0 /\ polls = 0 /\ fetches = 0 /\ running = 0 /\ fault = "none"

\* C9: an exception raised in the tool-name extraction, the submission, a
\* poll, the fetch or the parsing never leaves lambda_handler: the invocation
\* ends with an error envelope, and the handler is then in the same state as
\* before its first invocation, so that it serves the next one as it would
\* have otherwise.
FaultsBecomeErrorEnvelopes ==
    /\ pc # "crashed"
    /\ fault # "none"
         => /\ pc = "done"
            /\ DOMAIN response = {"status", "error"}
            /\ response.status = "error"
            /\ response.error # <<>>
    /\ pc = "idle" => Fresh

ServedAfterFault ==
    /\ afterFault
    /\ pc = "done"
    /\ fault = "none"
    /\ IsSuccess(response)

\* C10: every response of lambda_handler is an envelope with a status of
\* "success" or "error"; an error carries an error string, a success carries
\* data and metadata.
UniformEnvelope ==
    pc = "done"
      => \/ IsSuccess(response) /\ DOMAIN response = {"status", "data", "metadata"}
         \/ IsError(response) /\ DOMAIN response = {"status", "error"}

\* the poll loop ran to the ceiling: 60 answers, none of them terminal
TimedOut == pc = "done" /\ running = max_attempts

\* C11: the error envelope tells a timeout from a failure the service
\* reported, whatever the reason string: the envelope of the timeout is
\* returned only when the poll loop ran to the ceiling.
EnvelopeTellsTimeoutFromFailure ==
    (pc = "done" /\ IsError(response) /\ response.error = TimeoutResult.error)
        => TimedOut

\* the event holds exactly the parameters the schema of the tool requires
SuppliesExactlyRequired ==
    /\ original_tool_name[2] \in RegisteredTools
    /\ DOMAIN event = SchemaOf(original_tool_name[2]).required

\* the response is the missing-parameter error of lambda_handler
IsMissingParameter(r) ==
    /\ "error" \in DOMAIN r
    /\ Len(r.error) > 0
    /\ r.error[1] = "Missing required parameter: "

\* C12: for every tool, an invocation that supplies exactly the parameters
\* its schema lists as required (the defaulted ones omitted) binds, and gets
\* no missing-parameter error.
RequiredParametersSuffice ==
    (Started /\ Resolved /\ SuppliesExactlyRequired)
        => /\ BindingSucceeded
           /\ ~IsMissingParameter(response)

Min(a, b) == IF a < b THEN a ELSE b

\* C13: a successful execution makes exactly one fetch, and for a result of
\* N data rows the output holds min(N, 100) data rows.
OutputHoldsFirstHundredDataRows ==
    (pc = "done" /\ status = "SUCCEEDED" /\ IsSuccess(response))
        => /\ fetches = 1
           /\ Len(response.data) = Min(stored, 100)
           /\ response.metadata.row_count = Min(stored, 100)

\* C14: within one invocation the query is submitted exactly once and the
\* result is fetched at most once, and only after a poll reported SUCCEEDED;
\* a failed submission ends the invocation with a failure, no poll and no
\* fetch; a failed fetch is not tried again.
SubmitsOnceFetchesAtMostOnce ==
    /\ submits <= 1
    /\ fetches <= 1
    /\ (pc \in {"poll", "fetch"} \/ (pc = "done" /\ query # <<>>)) => submits = 1
    /\ pc = "fetch" => (status = "SUCCEEDED" /\ fetches = 0)
    /\ fetches = 1 => (status = "SUCCEEDED" /\ polls >= 1 /\ pc = "done")
    /\ fault = "submit"
         => /\ pc = "done"
            /\ polls = 0 /\ fetches = 0
            /\ result.success = FALSE
            /\ IsError(response)
            /\ ~ENABLED StartQuery
    /\ fault = "fetch"
         => /\ pc = "done"
            /\ fetches = 1
            /\ result.success = FALSE
            /\ IsError(response)
            /\ ~ENABLED FetchResults(SampleResults)

FetchFailedAfterTwoPolls ==
    /\ pc = "done"
    /\ fault = "fetch"
    /\ submits = 1 /\ polls = 2 /\ fetches = 1
    /\ IsError(response)

\* the terminal outcomes of an execution that the service answered
Outcomes ==
    {o \in {"Succeeded", "Failed", "Cancelled", "TimedOut"} :
       \/ o = "Succeeded" /\ status = "SUCCEEDED" /\ result.success
       \/ o = "Failed" /\ status = "FAILED" /\ ~result.success
       \/ o = "Cancelled" /\ status = "CANCELLED" /\ ~result.success
       \/ o = "TimedOut" /\ running = max_attempts /\ result = TimeoutResult}

NoServiceCall ==
    /\ ~ENABLED StartQuery
    /\ ~ENABLED PollStatus(PollAnswers)
    /\ ~ENABLED FetchResults({SampleResult})

\* C15: whatever statuses the service reports, a query stuck in a
\* non-terminal or unrecognised status included, a submitted execution
\* returns after at most 60 polls with exactly one of the four terminal
\* outcomes, and makes no service call after it.
ExecutionTerminates ==
    /\ [](polls <= 60)
    /\ [](pc = "done" => NoServiceCall)
    /\ []((pc = "done" /\ submits = 1 /\ fault = "none") => Cardinality(Outcomes) = 1)
    /\ (pc = "submit") ~> (pc = "done")

StuckInUnrecognisedStatus ==
    /\ pc = "done"
    /\ status = "PAUSED"
    /\ polls = 60
    /\ Outcomes = {"TimedOut"}

Terminal == {"SUCCEEDED", "FAILED", "CANCELLED"}

\* the execution was submitted, polled, and ended before the ceiling
EndedEarly == pc = "done" /\ submits = 1 /\ polls >= 1 /\ running < max_attempts

\* below the ceiling the loop goes on
LoopGoesOn ==
    (pc = "poll" /\ running < max_attempts)
        => (ENABLED PollStatus(PollAnswers) /\ ~ENABLED PollTimeout)

\* C16 as stated: once the query is submitted, an execution ends before the
\* ceiling of 60 attempts only because the last poll reported a terminal
\* status; nothing else ends the poll loop early.
OnlyTerminalStatusEndsEarly ==
    /\ LoopGoesOn
    /\ EndedEarly => (status \in Terminal /\ polls = running + 1)

\* C16: once the query is submitted, an execution ends before the ceiling of
\* 60 attempts only because the last poll reported a terminal status or
\* because the last poll raised an exception, which is returned as a failure.
OnlyTerminalStatusOrPollFaultEndsEarly ==
    /\ LoopGoesOn
    /\ EndedEarly
         => /\ polls = running + 1
            /\ \/ status \in Terminal /\ fault \in {"none", "fetch", "parse"}
               \/ /\ status \notin Terminal
                  /\ fault = "poll"
                  /\ result.success = FALSE
                  /\ IsError(response)
    /\ (pc = "done" /\ running = max_attempts)
         => (polls = max_attempts /\ result = TimeoutResult)

PollRaisedOnThirdPoll ==
    /\ pc = "done"
    /\ fault = "poll"
    /\ polls = 3 /\ running = 2
    /\ status = "RUNNING"
    /\ IsError(response)

\* the response of an execution that runs alone against the script: the
\* first poll, of at most 60, whose answer ends the loop decides
AloneResponse(script) ==
    LET decisive == {n \in 1..max_attempts :
                       \/ AnswerAt(script, n).kind = "raise"
                       \/ AnswerAt(script, n).value.State \in Terminal}
    IN  IF decisive = {} THEN Shape(Ret(TimeoutResult))
        ELSE LET a == AnswerAt(script, CHOOSE n \in decisive : \A m \in decisive : n <= m)
             IN  IF a.kind = "raise" THEN Shape(a)
                 ELSE IF a.value.State = "SUCCEEDED"
                 THEN Shape(IF script.result.kind = "raise" THEN script.result
                            ELSE Materialize(get_query_results(script.result.value,
                                                               MaxResults)))
                 ELSE Shape(Ret(FailedResult(a.value.StateChangeReason)))

InFlight(i) == inv[i].pc \in {"poll", "fetch"}

\* C17: concurrent invocations are independent: an execution of the service
\* is polled and fetched only by the invocation that started it, two
\* invocations never hold the same handle, and under every interleaving the
\* response of an invocation is the one it would produce running alone
\* against the same behaviour of the service for its handle.
InvocationsAreIndependent ==
    /\ \A h \in 1..Len(executions) : executions[h].callers \subseteq {executions[h].owner}
    /\ \A i \in Invocations :
         InFlight(i)
           => /\ inv[i].query_execution_id \in 1..Len(executions)
              /\ executions[inv[i].query_execution_id].owner = i
              /\ executions[inv[i].query_execution_id].served
                    = inv[i].attempt + (IF inv[i].pc = "fetch" THEN 1 ELSE 0)
    /\ \A i, j \in Invocations :
         (i # j /\ InFlight(i) /\ InFlight(j))
           => inv[i].query_execution_id # inv[j].query_execution_id
    /\ \A i \in Invocations :
         (inv[i].pc = "done" /\ inv[i].query_execution_id # 0)
           => inv[i].response = AloneResponse(executions[inv[i].query_execution_id].script)

\* both invocations are done: one polled to the timeout while the other one
\* started later and succeeded
InterleavedTimeoutAndSuccess ==
    /\ inv[1].pc = "done" /\ inv[2].pc = "done"
    /\ inv[1].query_execution_id = 1 /\ inv[2].query_execution_id = 2
    /\ inv[1].response = Shape(Ret(TimeoutResult))
    /\ IsSuccess(inv[2].response)
    /\ executions[1].served = 60

Messages == session_state["messages"]

\* the history starts with the greeting and alternates; an entry of the user
\* is the last one only while the agent is being invoked
HistoryWellFormed ==
    Has("messages")
      => /\ Has("auth_data")
         /\ Messages[1] = Greeting(session_state["auth_data"].name)
         /\ \A k \in 1..Len(Messages) :
              Messages[k].role = IF k % 2 = 1 THEN "assistant" ELSE "user"
         /\ (Len(Messages) % 2 = 0) <=> (run = "agent")

\* a prompt is appended once, a selected quick query is taken out of the
\* session with it, and the invocation of the agent appends one entry
ExchangeStep ==
    /\ (run = "chat_main" /\ (Has("selected_query") \/ widget.kind = "prompt"))
         => /\ run' = "agent"
            /\ "selected_query" \notin DOMAIN session_state'
            /\ session_state'["messages"]
                 = Append(IF Has("messages") THEN Messages
                          ELSE <<Greeting(session_state["auth_data"].name)>>,
                          [role |-> "user",
                           content |-> <<IF Has("selected_query")
                                         THEN session_state["selected_query"]
                                         ELSE widget.text>>])
    /\ run = "agent"
         => /\ run' = "waiting"
            /\ Len(session_state'["messages"]) = Len(Messages) + 1
            /\ SubSeq(session_state'["messages"], 1, Len(Messages)) = Messages
            /\ session_state'["messages"][Len(Messages) + 1].role = "assistant"

\* C18: after any sequence of typed prompts and quick-query clicks the history
\* starts with one greeting of the assistant and then alternates user and
\* assistant; every prompt is appended once and followed by exactly one entry
\* of the assistant, also when the invocation of the agent fails; a selected
\* quick query is consumed exactly once.
ChatHistoryAlternates ==
    /\ []HistoryWellFormed
    /\ [](run = "waiting" => ~Has("selected_query"))
    /\ [][ExchangeStep]_uiVars

QuickQueryFailedThenPromptAnswered ==
    /\ run = "waiting"
    /\ Has("messages")
    /\ Len(Messages) = 5
    /\ Messages[2].content = <<quick_queries[1]>>
    /\ Messages[3].content[1] = "Error invoking agent: "
    /\ Messages[4].content = <<"How many orders last week?">>
    /\ Messages[5].content = <<"Orders last week: 42">>

\* the session holds the data of a successful authentication
SessionAuthenticated ==
    /\ Has("authenticated") /\ session_state["authenticated"]
    /\ Has("auth_data") /\ Has("login_time")
    /\ session_state["auth_data"].access_token[2] \in 1..cognito
    /\ session_state["auth_data"].refresh_token[2] \in 1..cognito

\* the flag is set only by the step that stores the result of authenticate
FlagSetByLoginOnly ==
    (~Has("authenticated") /\ "authenticated" \in DOMAIN session_state')
      => /\ run = "login_page"
         /\ widget.kind = "login" /\ widget.text # "" /\ widget.password # ""
         /\ cognito' = cognito + 1
         /\ session_state'["auth_data"] = AuthResult(cognito', widget.text)
         /\ last' = "login_ok"

\* C19: the chat is shown and the agent invoked only while the session is
\* authenticated with the data of a successful authentication; a failed login
\* never sets the flag; after a logout or a failed refresh every key of the
\* session is gone and the next run shows the login page.
ChatOnlyWhileAuthenticated ==
    /\ [](run \in {"chat", "chat_main", "agent"} => SessionAuthenticated)
    /\ []((run = "waiting" /\ shown = "chat") => SessionAuthenticated)
    /\ [](last \in {"login_failed", "login_rejected"} => ~Has("authenticated"))
    /\ [](last \in {"logout", "refresh_failed"}
            => /\ DOMAIN session_state = {}
               /\ run \in {"main", "login_page", "waiting"}
               /\ run = "waiting" => shown = "login")
    /\ [][FlagSetByLoginOnly]_uiVars

LoginPageAfterLogout ==
    /\ last = "logout"
    /\ run = "waiting"
    /\ shown = "login"
    /\ DOMAIN session_state = {}
    /\ cognito = 1

\* one run of main() of an authenticated session, up to chat_interface()
RefreshStep ==
    (run = "main" /\ Has("authenticated"))
      => IF now - session_state["login_time"] > 50
         THEN \/ /\ last' = "refresh_ok"
                 /\ run' = "chat"
                 /\ cognito' = cognito + 1
                 /\ DOMAIN session_state' = DOMAIN session_state
                 /\ LET old == session_state["auth_data"]
                        new == session_state'["auth_data"]
                    IN  /\ new.access_token = <<"access", cognito'>>
                        /\ new.id_token = <<"id", cognito'>>
                        /\ new.access_token # old.access_token
                        /\ new.id_token # old.id_token
                        /\ new.refresh_token = old.refresh_token
                        /\ \A k \in {"username", "email", "name", "role"} : new[k] = old[k]
                 /\ session_state'["login_time"] = now
                 /\ \A k \in DOMAIN session_state \ {"auth_data", "login_time"} :
                      session_state'[k] = session_state[k]
              \/ /\ last' = "refresh_failed"
                 /\ DOMAIN session_state' = {}
                 /\ run' = "main"
                 /\ cognito' = cognito
         ELSE /\ run' = "chat"
              /\ UNCHANGED <<session_state, cognito, last>>

\* C20: on every run of an authenticated session, when more than 50 minutes
\* have passed since login_time a refresh is attempted before the chat is
\* served: on success the access and id tokens are replaced, login_time is
\* now, the refresh token and the attributes of the user are kept; on failure
\* the session is cleared and the chat is not served in that run.  When 50
\* minutes have not passed no refresh is attempted.
TokenRefreshBeforeChat == [][RefreshStep]_uiVars

RefreshedAfterFiftyOneMinutes ==
    /\ last = "refresh_ok"
    /\ run = "chat"
    /\ now = 51
    /\ session_state["login_time"] = 51
    /\ session_state["auth_data"].access_token = <<"access", 2>>
    /\ session_state["auth_data"].refresh_token = <<"refresh", 1>>

Range(q) == {q[i] : i \in 1..Len(q)}

\* C21: the tool names get_tool_schemas registers are the keys of
\* PREDEFINED_QUERIES, and the properties each schema declares are the
\* placeholders of the template of that tool: every tool the agent can call
\* resolves to a template, and every declared parameter is used by it.
SchemasMatchTemplates ==
    /\ RegisteredTools = DOMAIN PREDEFINED_QUERIES
    /\ Len(get_tool_schemas) = Cardinality(RegisteredTools)
    /\ Range(SYSTEM_PROMPT) = RegisteredTools
    /\ \A i \in 1..Len(get_tool_schemas) :
         get_tool_schemas[i].properties
           = Range(Placeholders(PREDEFINED_QUERIES[get_tool_schemas[i].name]))
    /\ Started
         => /\ Resolved
            /\ tool_name = <<original_tool_name[2]>>
            /\ response # UnknownToolResponse(tool_name)
    /\ (Started /\ DOMAIN event = SchemaOf(original_tool_name[2]).properties)
         => /\ BindingSucceeded
            /\ DOMAIN event = Range(Placeholders(Template))

ProductPerformanceCalledAsDeclared ==
    /\ pc = "done"
    /\ original_tool_name = <<"athena-queries", "get_product_performance">>
    /\ DOMAIN event = {"months", "limit"}
    /\ submits = 1
    /\ IsSuccess(response)
====
